---------------------------- MODULE Spec2Model ----------------------------
(***************************************************************************)
(* Wrapper lifetime / garbage-collector bridge of the gcc python plugin.   *)
(*                                                                         *)
(*   src/gcc-python-wrapper.c : the list of live PyGccWrapper objects,     *)
(*                              the mark walk, the forced collection and   *)
(*                              the self-test                              *)
(*   src/unnamed/part_000     : the tree proxies, their cache and reprs    *)
(*                                                                         *)
(* Everything runs on one thread; every action below is one complete call  *)
(* into the plugin made by the host interpreter or by the compiler.        *)
(***************************************************************************)
EXTENDS Integers, Sequences, FiniteSets, TLC

(***************************************************************************)
(* Bounds of the model.                                                    *)
(***************************************************************************)
MaxObj == 3        \* proxies ever allocated (addresses are never reused)
MaxHandle == 3     \* foreign tree nodes 1..MaxHandle
MaxRef == 2        \* host references to one proxy
MaxFailAt == 2     \* an allocation failure hits one of the first MaxFailAt
                   \* allocations of a call, or none
MaxHeapType == 2   \* host-defined subtypes ever created
MaxReprFailAt == 6  \* ... or one of the first MaxReprFailAt of a repr() call
MaxUid == 31       \* declaration uids 0..MaxUid
MaxHost == 3       \* host containers and pretty-printers ever allocated

(***************************************************************************)
(* Pointer values.  Proxies are 1..MaxObj.                                 *)
(***************************************************************************)
NULL == 0
Sentinel == 0 - 1      \* &sentinel
Uninit == 0 - 2        \* memory PyObject_New left unwritten
None == 0 - 3          \* Py_None
StrObj == 0 - 4        \* some host string object
Py_NotImplemented == 0 - 5
Py_True == 0 - 6
Py_False == 0 - 7
error_mark_node == 0 - 8

Objs == 1..MaxObj

\* host lists, tuples and pretty-printers
Hosts == {MaxObj + i : i \in 1..MaxHost}
Handles == 1..MaxHandle

(***************************************************************************)
(* The foreign heap.  Node 1 is an integer constant, node 2 a string       *)
(* constant, every further node a TREE_LIST whose value is node h-2 and    *)
(* whose chain is the previous TREE_LIST (NULL for the first); the first   *)
(* TREE_LIST has node 2 as its purpose, the others have none.  The nodes   *)
(* above ErrChain are TREE_LISTs too: ErrChain + i has node i as its value *)
(* and ErrChain + i - 1 as its chain, and the chain of ErrChain + 1 is     *)
(* error_mark_node (whose own chain is NULL).                              *)
(***************************************************************************)
ErrChain == 100

TREE_CODE(h) ==
    IF h >= 3 THEN "gcc.TreeList"
    ELSE IF h = 1 THEN "gcc.IntegerCst" ELSE "gcc.StringCst"

TREE_PURPOSE(h) == IF h = 3 THEN 2 ELSE NULL

TREE_VALUE(h) ==
    IF h > ErrChain THEN h - ErrChain
    ELSE IF h >= 3 THEN h - 2 ELSE NULL

TREE_CHAIN(h) ==
    IF h = ErrChain + 1 THEN error_mark_node
    ELSE IF h >= 4 THEN h - 1 ELSE NULL

WrapperTypes == {"gcc.IntegerCst", "gcc.StringCst", "gcc.TreeList"}

\* a statically allocated wrapper type whose wrtp_mark slot was never filled
\* in (the slot of a static type object is NULL unless its initialiser sets it)
UnmarkedType == "gcc.Unmarked"

StaticTypes == WrapperTypes \cup {UnmarkedType}

\* the heap-allocated type objects of host-defined subtypes, in the order of
\* their creation
HeapTypeNames == <<"heap1", "heap2", "heap3", "heap4">>

HeapTypes == {HeapTypeNames[i] : i \in 1..MaxHeapType}

TypeObjects == StaticTypes \cup HeapTypes

\* the type chosen for a node by its tree code
gcc_python_autogenerated_tree_type_for_tree(t) == TREE_CODE(t)

\* nodes the collector reaches from node h through the node's own fields
RECURSIVE Reach(_)
Reach(h) ==
    IF h = NULL THEN {}
    ELSE {h} \cup Reach(TREE_PURPOSE(h)) \cup Reach(TREE_VALUE(h))
             \cup Reach(TREE_CHAIN(h))

(***************************************************************************)
(* Program state.                                                          *)
(***************************************************************************)
VARIABLES
    types,                     \* the wrapper type objects: tp_base, wrtp_mark
    ntypes,                    \* number of heap types created so far
    obj,                       \* the proxies: header, links, wrapped node
    nobj,                      \* number of proxies allocated so far
    host,                      \* host lists, tuples, pretty-printers
    nhost,                     \* number of them allocated so far
    sentinel,                  \* the list anchor: [wr_prev, wr_next]
    tree_wrapper_cache,        \* node -> proxy, NULL when there is no entry
    debug_gcc_python_wrapper,  \* 0 or 1
    ggc_force_collect,         \* the collector's force flag
    marked,                    \* nodes marked by the last collection
    swept,                     \* nodes the collector has reclaimed
    walkLog,                   \* proxies handed to wrtp_mark by the call just made
    status,                    \* "running", "aborted" or "corrupt"
    text,                      \* the characters of the string just returned
    ret                        \* the value the call just made returned

vars == <<types, ntypes, obj, nobj, host, nhost, sentinel, tree_wrapper_cache, debug_gcc_python_wrapper,
          ggc_force_collect, marked, swept, walkLog, status, text, ret>>

NoObj ==
    [st |-> "unalloc", ob_refcnt |-> 0, ob_type |-> "", t |-> NULL,
     wr_prev |-> NULL, wr_next |-> NULL, ctor |-> ""]

NoHost ==
    [st |-> "unalloc", kind |-> "", ob_refcnt |-> 0, items |-> <<>>,
     keys |-> <<>>]

\* The state as one record, threaded through the calls of an action.
\*   k      : allocations attempted so far in this action
\*   failAt : the allocation that fails in this action (0: none)
\*   ub     : what a store through an unwritten link does in this action
\*   r      : the value returned by the call just modelled
\*   gc     : the value of ggc_force_collect at each ggc_collect() of this
\*            action, in order
\*   strs   : references to strings made in this action and not yet dropped
Cur(failAt, ub) ==
    [types |-> types, ntypes |-> ntypes, host |-> host, nhost |-> nhost,
     obj |-> obj, nobj |-> nobj, sentinel |-> sentinel,
     tree_wrapper_cache |-> tree_wrapper_cache,
     debug_gcc_python_wrapper |-> debug_gcc_python_wrapper,
     ggc_force_collect |-> ggc_force_collect,
     marked |-> marked, swept |-> swept, walkLog |-> <<>>,
     status |-> status, text |-> "", k |-> 0, failAt |-> failAt, ub |-> ub, r |-> NULL,
     gc |-> <<>>, strs |-> 0]

Commit(s) ==
    /\ types' = s.types
    /\ ntypes' = s.ntypes
    /\ host' = s.host
    /\ nhost' = s.nhost
    /\ obj' = s.obj
    /\ nobj' = s.nobj
    /\ sentinel' = s.sentinel
    /\ tree_wrapper_cache' = s.tree_wrapper_cache
    /\ debug_gcc_python_wrapper' = s.debug_gcc_python_wrapper
    /\ ggc_force_collect' = s.ggc_force_collect
    /\ marked' = s.marked
    /\ swept' = s.swept
    /\ walkLog' = s.walkLog
    /\ status' = s.status
    /\ text' = s.text
    /\ ret' = s.r

\* What the loads and stores through links that were never written can do:
\* nothing the program sees, the assertion failure, or damage to memory the
\* program uses.  After the last the run is "corrupt": nothing more is
\* modelled of it and it takes no further step.
UBOutcomes == {"benign", "abort", "corrupt"}

Running(s) == s.status = "running"

Abort(s) == [s EXCEPT !.status = "aborted", !.r = NULL]

Return(s, v) == [s EXCEPT !.r = v]


(***************************************************************************)
(* The links of the circular list: loads and stores through a node         *)
(* pointer, which is &sentinel or a proxy.                                 *)
(***************************************************************************)
wr_next(s, n) == IF n = Sentinel THEN s.sentinel.wr_next ELSE s.obj[n].wr_next

wr_prev(s, n) == IF n = Sentinel THEN s.sentinel.wr_prev ELSE s.obj[n].wr_prev

set_wr_next(s, n, v) ==
    IF n = Sentinel THEN [s EXCEPT !.sentinel.wr_next = v]
    ELSE [s EXCEPT !.obj[n].wr_next = v]

set_wr_prev(s, n, v) ==
    IF n = Sentinel THEN [s EXCEPT !.sentinel.wr_prev = v]
    ELSE [s EXCEPT !.obj[n].wr_prev = v]

\* The nodes met from n by following wr_next up to &sentinel (at most
\* fuel of them; a NULL or unwritten link ends the sequence).
RECURSIVE ListFrom(_, _, _)
ListFrom(o, n, fuel) ==
    IF n = Sentinel \/ n = NULL \/ n = Uninit \/ fuel = 0 THEN <<>>
    ELSE <<n>> \o ListFrom(o, o[n].wr_next, fuel - 1)

\* the tracker list of the current state, head to tail
TrackerList == ListFrom(obj, sentinel.wr_next, MaxObj + 1)

SeqToSet(q) == {q[i] : i \in 1..Len(q)}

(***************************************************************************)
(* Sequencing: Bind(e, F) is F applied to the value of e, with e           *)
(* evaluated once.                                                         *)
(***************************************************************************)
Bind(e, F(_)) == CHOOSE y \in {F(x) : x \in {e}} : TRUE

(***************************************************************************)
(* Host allocator and reference counts.                                    *)
(***************************************************************************)
\* PyObject_New(type, typeobj): NULL when the allocation fails; otherwise a
\* block whose type and reference count are set and nothing else.
PyObject_New(s, typeobj) ==
    IF s.k + 1 = s.failAt \/ s.nobj >= MaxObj
    THEN [s EXCEPT !.k = s.k + 1, !.r = NULL]
    ELSE [s EXCEPT !.k = s.k + 1,
                   !.nobj = s.nobj + 1,
                   !.obj[s.nobj + 1] =
                       [st |-> "live", ob_refcnt |-> 1,
                        ob_type |-> typeobj, t |-> Uninit,
                        wr_prev |-> Uninit, wr_next |-> Uninit,
                        ctor |-> "PyObject_New"],
                   !.r = s.nobj + 1]

Py_INCREF(s, o) ==
    IF o = None THEN s
    ELSE IF o \in Hosts
         THEN [s EXCEPT !.host[o].ob_refcnt = s.host[o].ob_refcnt + 1]
    ELSE [s EXCEPT !.obj[o].ob_refcnt = s.obj[o].ob_refcnt + 1]

\* The host's allocation of a list, a tuple, a dictionary or a
\* pretty-printer holding items (whose references the caller has already
\* accounted for): NULL when it fails.  The i-th item of a dictionary is the
\* value stored under its i-th key.
HostNew(s, kind, items) ==
    IF s.k + 1 = s.failAt \/ s.nhost >= MaxHost
    THEN [s EXCEPT !.k = s.k + 1, !.r = NULL]
    ELSE [s EXCEPT !.k = s.k + 1,
                   !.nhost = s.nhost + 1,
                   !.host[MaxObj + s.nhost + 1] =
                       [st |-> "live", kind |-> kind, ob_refcnt |-> 1,
                        items |-> items, keys |-> <<>>],
                   !.r = MaxObj + s.nhost + 1]

\* Py_TYPE(obj)->tp_free(obj): the block is released.  The cache holds its
\* proxies weakly (design document): the entry of a released proxy is gone.
tp_free(s, o) ==
    [s EXCEPT !.obj[o].st = "freed",
              !.tree_wrapper_cache =
                  [h \in Handles |->
                      IF s.tree_wrapper_cache[h] = o THEN NULL
                      ELSE s.tree_wrapper_cache[h]]]

(***************************************************************************)
(* gcc_python_wrapper_track, gcc_python_wrapper_untrack,                   *)
(* gcc_python_wrapper_dealloc and _PyGccWrapper_New.                       *)
(***************************************************************************)
\* gcc_python_wrapper_track as it would be if it linked the proxy in right
\* after the sentinel (at the head)
gcc_python_wrapper_track_at_head(s, o) ==
    IF ~Running(s) THEN s
    ELSE IF o = NULL \/ s.sentinel.wr_next = NULL \/ s.sentinel.wr_prev = NULL
         THEN Abort(s)
    ELSE Bind(set_wr_prev(s, s.sentinel.wr_next, o), LAMBDA s1 :
         Bind(set_wr_next(s1, o, s1.sentinel.wr_next), LAMBDA s2 :
         Bind(set_wr_prev(s2, o, Sentinel), LAMBDA s3 :
            set_wr_next(s3, Sentinel, o))))

gcc_python_wrapper_track(s, o) ==
    IF ~Running(s) THEN s
    ELSE IF o = NULL \/ s.sentinel.wr_next = NULL \/ s.sentinel.wr_prev = NULL
         THEN Abort(s)
    ELSE IF wr_next(s, s.sentinel.wr_prev) # Sentinel THEN Abort(s)
    ELSE Bind(set_wr_next(s, s.sentinel.wr_prev, o), LAMBDA s1 :
         Bind(set_wr_prev(s1, o, s1.sentinel.wr_prev), LAMBDA s2 :
         Bind(set_wr_next(s2, o, Sentinel), LAMBDA s3 :
         Bind(set_wr_prev(s3, Sentinel, o), LAMBDA s4 :
            IF s4.obj[o].wr_prev = NULL \/ s4.obj[o].wr_next = NULL
            THEN Abort(s4) ELSE s4))))

\* gcc_python_wrapper_untrack as it would be without
\* assert(Py_REFCNT(obj) == 0)
gcc_python_wrapper_untrack_unchecked(s, o) ==
    IF ~Running(s) THEN s
    ELSE IF o = NULL THEN Abort(s)
    ELSE IF s.sentinel.wr_next = NULL \/ s.sentinel.wr_prev = NULL THEN Abort(s)
    ELSE IF s.obj[o].wr_prev = Uninit \/ s.obj[o].wr_next = Uninit THEN
         IF s.ub = "abort" THEN Abort(s)
         ELSE IF s.ub = "corrupt" THEN [s EXCEPT !.status = "corrupt", !.r = NULL]
         ELSE [s EXCEPT !.obj[o].wr_prev = NULL, !.obj[o].wr_next = NULL]
    ELSE IF s.obj[o].wr_prev = NULL \/ s.obj[o].wr_next = NULL THEN Abort(s)
    ELSE Bind(set_wr_next(s, s.obj[o].wr_prev, s.obj[o].wr_next), LAMBDA s1 :
         Bind(set_wr_prev(s1, s1.obj[o].wr_next, s1.obj[o].wr_prev), LAMBDA s2 :
            [s2 EXCEPT !.obj[o].wr_prev = NULL, !.obj[o].wr_next = NULL]))

\* gcc_python_wrapper_untrack as it would be if it redirected only the
\* predecessor's wr_next and left the successor's wr_prev alone
gcc_python_wrapper_untrack_one_link(s, o) ==
    IF ~Running(s) THEN s
    ELSE IF o = NULL THEN Abort(s)
    ELSE IF s.obj[o].ob_refcnt # 0 THEN Abort(s)
    ELSE IF s.sentinel.wr_next = NULL \/ s.sentinel.wr_prev = NULL THEN Abort(s)
    ELSE IF s.obj[o].wr_prev = Uninit \/ s.obj[o].wr_next = Uninit THEN
         IF s.ub = "abort" THEN Abort(s)
         ELSE IF s.ub = "corrupt" THEN [s EXCEPT !.status = "corrupt", !.r = NULL]
         ELSE [s EXCEPT !.obj[o].wr_prev = NULL, !.obj[o].wr_next = NULL]
    ELSE IF s.obj[o].wr_prev = NULL \/ s.obj[o].wr_next = NULL THEN Abort(s)
    ELSE Bind(set_wr_next(s, s.obj[o].wr_prev, s.obj[o].wr_next), LAMBDA s1 :
            [s1 EXCEPT !.obj[o].wr_prev = NULL, !.obj[o].wr_next = NULL])

\* gcc_python_wrapper_untrack as it would be if it left the links of the
\* removed proxy as they were
gcc_python_wrapper_untrack_links_kept(s, o) ==
    IF ~Running(s) THEN s
    ELSE IF o = NULL THEN Abort(s)
    ELSE IF s.obj[o].ob_refcnt # 0 THEN Abort(s)
    ELSE IF s.sentinel.wr_next = NULL \/ s.sentinel.wr_prev = NULL THEN Abort(s)
    ELSE IF s.obj[o].wr_prev = Uninit \/ s.obj[o].wr_next = Uninit THEN
         IF s.ub = "abort" THEN Abort(s)
         ELSE IF s.ub = "corrupt" THEN [s EXCEPT !.status = "corrupt", !.r = NULL]
         ELSE s
    ELSE IF s.obj[o].wr_prev = NULL \/ s.obj[o].wr_next = NULL THEN Abort(s)
    ELSE Bind(set_wr_next(s, s.obj[o].wr_prev, s.obj[o].wr_next), LAMBDA s1 :
            set_wr_prev(s1, s1.obj[o].wr_next, s1.obj[o].wr_prev))

gcc_python_wrapper_untrack(s, o) ==
    IF ~Running(s) THEN s
    ELSE IF o = NULL THEN Abort(s)
    ELSE IF s.obj[o].ob_refcnt # 0 THEN Abort(s)
    ELSE IF s.sentinel.wr_next = NULL \/ s.sentinel.wr_prev = NULL THEN Abort(s)
    ELSE IF s.obj[o].wr_prev = Uninit \/ s.obj[o].wr_next = Uninit THEN
         \* The links were never written (the proxy was not tracked): the
         \* loads yield whatever the block held.  A zero word fails the
         \* assertion; any other word is a wild pointer that the two stores
         \* go through, hitting memory the program does not use ("benign")
         \* or memory it does ("corrupt").
         IF s.ub = "abort" THEN Abort(s)
         ELSE IF s.ub = "corrupt" THEN [s EXCEPT !.status = "corrupt", !.r = NULL]
         ELSE [s EXCEPT !.obj[o].wr_prev = NULL, !.obj[o].wr_next = NULL]
    ELSE IF s.obj[o].wr_prev = NULL \/ s.obj[o].wr_next = NULL THEN Abort(s)
    ELSE Bind(set_wr_next(s, s.obj[o].wr_prev, s.obj[o].wr_next), LAMBDA s1 :
         Bind(set_wr_prev(s1, s1.obj[o].wr_next, s1.obj[o].wr_prev), LAMBDA s2 :
            [s2 EXCEPT !.obj[o].wr_prev = NULL, !.obj[o].wr_next = NULL]))

\* gcc_python_wrapper_dealloc as it would be if it freed the proxy without
\* untracking it
gcc_python_wrapper_dealloc_no_untrack(s, o) ==
    IF ~Running(s) THEN s
    ELSE IF o = NULL THEN Abort(s)
    ELSE IF s.obj[o].ob_refcnt # 0 THEN Abort(s)
    ELSE tp_free(s, o)

gcc_python_wrapper_dealloc(s, o) ==
    IF ~Running(s) THEN s
    ELSE IF o = NULL THEN Abort(s)
    ELSE IF s.obj[o].ob_refcnt # 0 THEN Abort(s)
    ELSE Bind(gcc_python_wrapper_untrack(s, o), LAMBDA s1 :
            IF Running(s1) THEN tp_free(s1, o) ELSE s1)

\* Py_DECREF / Py_XDECREF: the last reference gone calls tp_dealloc, which
\* for every wrapper type is gcc_python_wrapper_dealloc; that of a list or
\* a tuple drops the references to its items and frees it.  A reference
\* dropped on a freed host object is a double release.
RECURSIVE Py_DECREF(_, _)
RECURSIVE Py_DECREF_each(_, _)
Py_DECREF_each(s, items) ==
    IF items = <<>> THEN s
    ELSE Bind(Py_DECREF(s, Head(items)), LAMBDA s1 :
            Py_DECREF_each(s1, Tail(items)))

Py_DECREF(s, o) ==
    IF ~Running(s) \/ o = None \/ o = NULL THEN s
    ELSE IF o = StrObj THEN [s EXCEPT !.strs = s.strs - 1]
    ELSE IF o \in Hosts THEN
         IF s.host[o].st # "live" THEN [s EXCEPT !.status = "corrupt", !.r = NULL]
         ELSE IF s.host[o].ob_refcnt = 1
              THEN Bind(Py_DECREF_each([s EXCEPT !.host[o].ob_refcnt = 0],
                                       s.host[o].items), LAMBDA s1 :
                     IF Running(s1) THEN [s1 EXCEPT !.host[o].st = "freed"]
                     ELSE s1)
         ELSE [s EXCEPT !.host[o].ob_refcnt = s.host[o].ob_refcnt - 1]
    ELSE IF s.obj[o].ob_refcnt = 1
         THEN gcc_python_wrapper_dealloc([s EXCEPT !.obj[o].ob_refcnt = 0], o)
    ELSE [s EXCEPT !.obj[o].ob_refcnt = s.obj[o].ob_refcnt - 1]

\* _PyGccWrapper_New as it would be without the test of PyObject_New's result
_PyGccWrapper_New_unchecked(s, typeobj) ==
    IF ~Running(s) THEN s
    ELSE Bind(PyObject_New(s, typeobj), LAMBDA s1 :
         Bind(gcc_python_wrapper_track(
                  IF s1.r = NULL THEN s1
                  ELSE [s1 EXCEPT !.obj[s1.r].ctor = "_PyGccWrapper_New"], s1.r),
              LAMBDA s2 : IF Running(s2) THEN Return(s2, s1.r) ELSE s2))

_PyGccWrapper_New(s, typeobj) ==
    IF ~Running(s) THEN s
    ELSE Bind(PyObject_New(s, typeobj), LAMBDA s1 :
         IF s1.r = NULL THEN s1
         ELSE Bind(gcc_python_wrapper_track(
                       [s1 EXCEPT !.obj[s1.r].ctor = "_PyGccWrapper_New"], s1.r),
                   LAMBDA s2 : IF Running(s2) THEN Return(s2, s1.r) ELSE s2))

(***************************************************************************)
(* The metatype: creation of host-defined subtypes.                        *)
(***************************************************************************)
\* PyType_Type.tp_new(type, args, kwds) for a class statement whose base is
\* tp_base: NULL when the allocation fails, otherwise a zero-filled heap type
\* object with its tp_base set.
PyType_Type_tp_new(s, tp_base) ==
    IF s.k + 1 = s.failAt \/ s.ntypes >= MaxHeapType
    THEN [s EXCEPT !.k = s.k + 1, !.r = ""]
    ELSE [s EXCEPT !.k = s.k + 1,
                   !.ntypes = s.ntypes + 1,
                   !.types[HeapTypeNames[s.ntypes + 1]] =
                       [st |-> "heap", tp_base |-> tp_base, wrtp_mark |-> ""],
                   !.r = HeapTypeNames[s.ntypes + 1]]

\* gcc_python_wrapper_meta_tp_new as it would be without the
\* "Inherit wrtp_mark" assignment
gcc_python_wrapper_meta_tp_new_no_inherit(s, tp_base) ==
    IF ~Running(s) THEN s ELSE PyType_Type_tp_new(s, tp_base)

\* The result is the new type object, "" for NULL.  The assertion on
\* tp_basicsize holds for every type of this metatype.
gcc_python_wrapper_meta_tp_new(s, tp_base) ==
    IF ~Running(s) THEN s
    ELSE Bind(PyType_Type_tp_new(s, tp_base), LAMBDA s1 :
            IF s1.r = "" THEN s1
            ELSE [s1 EXCEPT !.types[s1.r].wrtp_mark =
                                s1.types[s1.types[s1.r].tp_base].wrtp_mark])

\* the statically allocated type a type descends from along tp_base
RECURSIVE StaticBase(_, _)
StaticBase(tys, ty) ==
    IF tys[ty].st = "heap" THEN StaticBase(tys, tys[ty].tp_base) ELSE ty

(***************************************************************************)
(* Tree proxies and their cache.                                           *)
(***************************************************************************)
\* real_make_tree_wrapper as it would be without the test for NULL
real_make_tree_wrapper_no_null_check(s, t) ==
    IF ~Running(s) THEN s
    ELSE Bind(PyObject_New(s, gcc_python_autogenerated_tree_type_for_tree(t)),
              LAMBDA s1 : IF s1.r = NULL THEN s1
                          ELSE [s1 EXCEPT !.obj[s1.r].t = t])

real_make_tree_wrapper(s, t) ==
    IF ~Running(s) THEN s
    ELSE IF t = NULL THEN Return(s, None)
    ELSE Bind(PyObject_New(s, gcc_python_autogenerated_tree_type_for_tree(t)),
              LAMBDA s1 : IF s1.r = NULL THEN s1
                          ELSE [s1 EXCEPT !.obj[s1.r].t = t])

\* The get-or-create of the cache (its code is not among the sources; this
\* is the contract of the design document): the null handle gives None, a
\* live cached proxy is returned with one more reference, otherwise ctor
\* builds a proxy that is stored under the handle; a failed construction
\* stores nothing.
gcc_python_lazily_create_wrapper(s, ptr) ==
    IF ~Running(s) THEN s
    ELSE IF ptr = NULL THEN Return(s, None)
    ELSE IF s.tree_wrapper_cache[ptr] # NULL
         THEN Return(Py_INCREF(s, s.tree_wrapper_cache[ptr]),
                     s.tree_wrapper_cache[ptr])
    ELSE Bind(real_make_tree_wrapper(s, ptr), LAMBDA s1 :
            IF s1.r = NULL THEN s1
            ELSE [s1 EXCEPT !.tree_wrapper_cache[ptr] = s1.r])

\* gcc_python_make_wrapper_tree as it would be if it built a proxy on every
\* request, without the cache
gcc_python_make_wrapper_tree_uncached(s, t) == real_make_tree_wrapper(s, t)

gcc_python_make_wrapper_tree(s, t) == gcc_python_lazily_create_wrapper(s, t)

gcc_python_make_wrapper_tree_unique(s, t) == gcc_python_lazily_create_wrapper(s, t)

(***************************************************************************)
(* str, hash and comparison of tree proxies.                               *)
(***************************************************************************)
\* gcc_python_pretty_printer_new(): a new pretty-printer object, or NULL
gcc_python_pretty_printer_new(s) == HostNew(s, "pp", <<>>)

\* gcc_python_pretty_printer_as_string(ppobj): a new string, or NULL when
\* its allocation fails
gcc_python_pretty_printer_as_string(s, ppobj) ==
    IF s.k + 1 = s.failAt THEN [s EXCEPT !.k = s.k + 1, !.r = NULL]
    ELSE [s EXCEPT !.k = s.k + 1, !.strs = s.strs + 1, !.r = StrObj]

\* do_pretty_print as it would be if the error path did not release ppobj
do_pretty_print_leaking(s, self) ==
    Bind(gcc_python_pretty_printer_new(s), LAMBDA s1 :
        IF s1.r = NULL THEN s1
        ELSE Bind(gcc_python_pretty_printer_as_string(s1, s1.r), LAMBDA s2 :
                IF s2.r = NULL THEN s2
                ELSE Return(Py_DECREF(s2, s1.r), s2.r)))

\* dump_generic_node writes into the pretty-printer's buffer only
do_pretty_print(s, self) ==
    Bind(gcc_python_pretty_printer_new(s), LAMBDA s1 :
        IF s1.r = NULL THEN s1
        ELSE Bind(gcc_python_pretty_printer_as_string(s1, s1.r), LAMBDA s2 :
                IF s2.r = NULL
                THEN Return(Py_DECREF(s2, s1.r), NULL)
                ELSE Return(Py_DECREF(s2, s1.r), s2.r)))

gcc_Tree_str(s, self) == do_pretty_print(s, self)

\* (long)self->t: the address of the node as a number
gcc_Tree_hash(s, self) == s.obj[self].t

\* PyObject_TypeCheck(o, &gcc_TreeType): o is a proxy whose type is a tree
\* type or descends from one
PyObject_TypeCheck_gcc_TreeType(s, o) ==
    /\ o \in Objs
    /\ StaticBase(s.types, s.obj[o].ob_type) \in WrapperTypes

\* ((struct PyGccTree *)o)->t; what this load gives for an object that is no
\* tree proxy is not a node
PyGccTree_t(s, o) == IF o \in Objs THEN s.obj[o].t ELSE Uninit

CompareOps == {"Py_LT", "Py_EQ", "Py_NE"}

EqualityOps == {"Py_EQ", "Py_NE"}

\* gcc_Tree_richcompare as it would be without the type check of o2
gcc_Tree_richcompare_o2_unchecked(s, o1, o2, op) ==
    IF ~PyObject_TypeCheck_gcc_TreeType(s, o1) THEN Py_NotImplemented
    ELSE IF op = "Py_EQ"
         THEN (IF PyGccTree_t(s, o1) = PyGccTree_t(s, o2) THEN Py_True ELSE Py_False)
    ELSE IF op = "Py_NE"
         THEN (IF PyGccTree_t(s, o1) # PyGccTree_t(s, o2) THEN Py_True ELSE Py_False)
    ELSE Py_NotImplemented

\* gcc_Tree_richcompare as it would be if it compared the proxies, not the
\* nodes they wrap
gcc_Tree_richcompare_by_identity(s, o1, o2, op) ==
    IF ~PyObject_TypeCheck_gcc_TreeType(s, o1) THEN Py_NotImplemented
    ELSE IF ~PyObject_TypeCheck_gcc_TreeType(s, o2) THEN Py_NotImplemented
    ELSE IF op = "Py_EQ" THEN (IF o1 = o2 THEN Py_True ELSE Py_False)
    ELSE IF op = "Py_NE" THEN (IF o1 # o2 THEN Py_True ELSE Py_False)
    ELSE Py_NotImplemented

\* the result object (the reference counts of the three singletons are not
\* modelled)
gcc_Tree_richcompare(s, o1, o2, op) ==
    IF ~PyObject_TypeCheck_gcc_TreeType(s, o1) THEN Py_NotImplemented
    ELSE IF ~PyObject_TypeCheck_gcc_TreeType(s, o2) THEN Py_NotImplemented
    ELSE IF op = "Py_EQ"
         THEN (IF PyGccTree_t(s, o1) = PyGccTree_t(s, o2) THEN Py_True ELSE Py_False)
    ELSE IF op = "Py_NE"
         THEN (IF PyGccTree_t(s, o1) # PyGccTree_t(s, o2) THEN Py_True ELSE Py_False)
    ELSE Py_NotImplemented

(***************************************************************************)
(* Accessors that build a host list of proxies from a chain of nodes.      *)
(***************************************************************************)
PyList_New(s) == HostNew(s, "list", <<>>)

\* PyList_Append(list, item): 0 with item stored under a reference of the
\* list's own, or -1 (the list could not grow) with nothing changed
PyList_Append(s, list, item) ==
    IF s.k + 1 = s.failAt THEN [s EXCEPT !.k = s.k + 1, !.r = 0 - 1]
    ELSE Bind(Py_INCREF(s, item), LAMBDA s1 :
            [s1 EXCEPT !.k = s.k + 1,
                       !.host[list].items = Append(s.host[list].items, item),
                       !.r = 0])

\* Py_BuildValue("OO", a, b): a new tuple holding its own references to a
\* and b, or NULL
Py_BuildValue_OO(s, a, b) ==
    Bind(HostNew(s, "tuple", <<a, b>>), LAMBDA s1 :
        IF s1.r = NULL THEN s1
        ELSE Return(Py_INCREF(Py_INCREF(s1, a), b), s1.r))

\* the while loop of gcc_tree_list_from_chain, from node t on
RECURSIVE gcc_tree_list_from_chain_loop(_, _, _)
gcc_tree_list_from_chain_loop(s, result, t) ==
    IF ~Running(s) THEN s
    ELSE IF t = NULL THEN Return(s, result)
    ELSE Bind(gcc_python_make_wrapper_tree(s, t), LAMBDA s1 :
         IF ~Running(s1) THEN s1
         ELSE IF s1.r = NULL THEN Return(Py_DECREF(s1, result), NULL)
         ELSE Bind(PyList_Append(s1, result, s1.r), LAMBDA s2 :
              IF s2.r # 0
              THEN Return(Py_DECREF(Py_DECREF(s2, s1.r), result), NULL)
              ELSE gcc_tree_list_from_chain_loop(s2, result, TREE_CHAIN(t))))

gcc_tree_list_from_chain(s, t) ==
    Bind(PyList_New(s), LAMBDA s1 :
        IF s1.r = NULL THEN s1
        ELSE gcc_tree_list_from_chain_loop(s1, s1.r, t))

\* the while loop of gcc_python_tree_make_list_from_tree_list_chain
RECURSIVE gcc_python_tree_make_list_from_tree_list_chain_loop(_, _, _)
gcc_python_tree_make_list_from_tree_list_chain_loop(s, result, t) ==
    IF ~Running(s) THEN s
    ELSE IF t = NULL THEN Return(s, result)
    ELSE Bind(gcc_python_make_wrapper_tree(s, TREE_VALUE(t)), LAMBDA s1 :
         IF ~Running(s1) THEN s1
         ELSE IF s1.r = NULL THEN Return(Py_DECREF(s1, result), NULL)
         ELSE Bind(PyList_Append(s1, result, s1.r), LAMBDA s2 :
              IF s2.r # 0
              THEN Return(Py_DECREF(Py_DECREF(s2, s1.r), result), NULL)
              ELSE gcc_python_tree_make_list_from_tree_list_chain_loop(
                       s2, result, TREE_CHAIN(t))))

gcc_python_tree_make_list_from_tree_list_chain(s, t) ==
    Bind(PyList_New(s), LAMBDA s1 :
        IF s1.r = NULL THEN s1
        ELSE gcc_python_tree_make_list_from_tree_list_chain_loop(s1, s1.r, t))

\* the while loop of gcc_tree_list_of_pairs_from_tree_list_chain
RECURSIVE gcc_tree_list_of_pairs_from_tree_list_chain_loop(_, _, _)
gcc_tree_list_of_pairs_from_tree_list_chain_loop(s, result, t) ==
    IF ~Running(s) THEN s
    ELSE IF t = NULL THEN Return(s, result)
    ELSE Bind(gcc_python_make_wrapper_tree(s, TREE_PURPOSE(t)), LAMBDA s1 :
         IF ~Running(s1) THEN s1
         ELSE IF s1.r = NULL THEN Return(Py_DECREF(s1, result), NULL)
         ELSE Bind(gcc_python_make_wrapper_tree(s1, TREE_VALUE(t)), LAMBDA s2 :
         IF ~Running(s2) THEN s2
         ELSE IF s2.r = NULL
              THEN Return(Py_DECREF(Py_DECREF(s2, s1.r), result), NULL)
         ELSE Bind(Py_BuildValue_OO(s2, s1.r, s2.r), LAMBDA s3 :
         IF s3.r = NULL
         THEN Return(Py_DECREF(Py_DECREF(Py_DECREF(s3, s1.r), s2.r), result),
                     NULL)
         ELSE Bind(PyList_Append(s3, result, s3.r), LAMBDA s4 :
              IF s4.r # 0
              THEN Return(Py_DECREF(Py_DECREF(s4, s3.r), result), NULL)
              ELSE gcc_tree_list_of_pairs_from_tree_list_chain_loop(
                       s4, result, TREE_CHAIN(t))))))

gcc_tree_list_of_pairs_from_tree_list_chain(s, t) ==
    Bind(PyList_New(s), LAMBDA s1 :
        IF s1.r = NULL THEN s1
        ELSE gcc_tree_list_of_pairs_from_tree_list_chain_loop(s1, s1.r, t))

(***************************************************************************)
(* gcc_Type_get_attributes, given the chain TYPE_ATTRIBUTES(self->t) as    *)
(* the sequence of its nodes: name is IDENTIFIER_POINTER(TREE_PURPOSE) of  *)
(* the node and value its TREE_VALUE, the head of a TREE_LIST chain.       *)
(***************************************************************************)
PyDict_New(s) == HostNew(s, "dict", <<>>)

\* the position of key among the keys of dictionary d, 0 when it is absent
KeyIndex(s, d, key) ==
    IF \E j \in 1..Len(s.host[d].keys) : s.host[d].keys[j] = key
    THEN CHOOSE j \in 1..Len(s.host[d].keys) : s.host[d].keys[j] = key
    ELSE 0

\* PyDict_SetItemString as it would be if it kept the value a key already has
PyDict_SetItemString_keep_first(s, d, key, value) ==
    IF s.k + 1 = s.failAt THEN [s EXCEPT !.k = s.k + 1, !.r = 0 - 1]
    ELSE IF KeyIndex(s, d, key) # 0 THEN [s EXCEPT !.k = s.k + 1, !.r = 0]
    ELSE Bind(Py_INCREF(s, value), LAMBDA s1 :
            [s1 EXCEPT !.k = s.k + 1,
                       !.host[d].keys = Append(s.host[d].keys, key),
                       !.host[d].items = Append(s.host[d].items, value),
                       !.r = 0])

\* PyDict_SetItemString(d, key, value): 0 with value stored under key (under
\* a reference of the dictionary's own, the reference to a value key had
\* before dropped), or -1 with nothing changed
PyDict_SetItemString(s, d, key, value) ==
    IF s.k + 1 = s.failAt THEN [s EXCEPT !.k = s.k + 1, !.r = 0 - 1]
    ELSE Bind(Py_INCREF(s, value), LAMBDA s1 :
         IF KeyIndex(s, d, key) # 0
         THEN Bind([s1 EXCEPT !.k = s.k + 1,
                              !.host[d].items[KeyIndex(s, d, key)] = value],
                   LAMBDA s2 :
                 Return(Py_DECREF(s2, s.host[d].items[KeyIndex(s, d, key)]), 0))
         ELSE [s1 EXCEPT !.k = s.k + 1,
                         !.host[d].keys = Append(s.host[d].keys, key),
                         !.host[d].items = Append(s.host[d].items, value),
                         !.r = 0])

\* the for loop, attrs being the nodes of the chain still to visit
RECURSIVE gcc_Type_get_attributes_loop(_, _, _)
gcc_Type_get_attributes_loop(s, result, attrs) ==
    IF ~Running(s) THEN s
    ELSE IF attrs = <<>> THEN Return(s, result)
    ELSE Bind(gcc_python_tree_make_list_from_tree_list_chain(s, Head(attrs).value),
              LAMBDA s1 :
         IF ~Running(s1) THEN s1
         ELSE IF s1.r = NULL THEN Return(Py_DECREF(s1, result), NULL)
         ELSE Bind(PyDict_SetItemString(s1, result, Head(attrs).name, s1.r),
                   LAMBDA s2 :
              IF s2.r # 0 THEN Return(Py_DECREF(s2, result), NULL)
              ELSE gcc_Type_get_attributes_loop(s2, result, Tail(attrs))))

gcc_Type_get_attributes(s, attrs) ==
    Bind(PyDict_New(s), LAMBDA s1 :
        IF s1.r = NULL THEN s1
        ELSE gcc_Type_get_attributes_loop(s1, s1.r, attrs))

(***************************************************************************)
(* gcc_FunctionType_get_argument_types, given head = TYPE_ARG_TYPES of the *)
(* function type.                                                          *)
(***************************************************************************)
\* the first loop: the number of nodes from iter up to NULL or
\* error_mark_node
RECURSIVE ChainSize(_)
ChainSize(iter) ==
    IF iter = NULL \/ iter = error_mark_node THEN 0
    ELSE 1 + ChainSize(TREE_CHAIN(iter))

\* PyTuple_New(size): a tuple of size empty (NULL) slots; NULL when the
\* allocation fails or size is negative
PyTuple_New(s, size) ==
    IF size < 0 THEN [s EXCEPT !.r = NULL]
    ELSE HostNew(s, "tuple", [j \in 1..size |-> NULL])

\* PyTuple_SetItem(result, i, item) takes over the caller's reference to
\* item
PyTuple_SetItem(s, result, i, item) ==
    [s EXCEPT !.host[result].items[i + 1] = item]

\* the second loop
RECURSIVE gcc_FunctionType_get_argument_types_fill(_, _, _, _, _)
gcc_FunctionType_get_argument_types_fill(s, result, iter, i, size) ==
    IF ~Running(s) THEN s
    ELSE IF iter = NULL \/ TREE_CHAIN(iter) = NULL \/ iter = error_mark_node
         THEN Return(s, result)
    ELSE IF ~(i < size) THEN Abort(s)
    ELSE Bind(gcc_python_make_wrapper_tree(s, TREE_VALUE(iter)), LAMBDA s1 :
         IF ~Running(s1) THEN s1
         ELSE IF s1.r = NULL THEN Return(Py_DECREF(s1, result), NULL)
         ELSE gcc_FunctionType_get_argument_types_fill(
                  PyTuple_SetItem(s1, result, i, s1.r), result,
                  TREE_CHAIN(iter), i + 1, size))

\* gcc_FunctionType_get_argument_types as it would be without size--
gcc_FunctionType_get_argument_types_with_last(s, head) ==
    IF ~(ChainSize(head) > 0) THEN Abort(s)
    ELSE Bind(PyTuple_New(s, ChainSize(head)), LAMBDA s1 :
         IF s1.r = NULL THEN s1
         ELSE gcc_FunctionType_get_argument_types_fill(
                  s1, s1.r, head, 0, ChainSize(head)))

gcc_FunctionType_get_argument_types(s, head) ==
    IF ~(ChainSize(head) > 0) THEN Abort(s)
    ELSE Bind(PyTuple_New(s, ChainSize(head) - 1), LAMBDA s1 :
         IF s1.r = NULL THEN s1
         ELSE gcc_FunctionType_get_argument_types_fill(
                  s1, s1.r, head, 0, ChainSize(head) - 1))

(***************************************************************************)
(* repr: what PyObject_Repr does to the state, by the type of the object.  *)
(***************************************************************************)
\* gcc_python_string_from_format(...): a new string, or NULL when its
\* allocation fails
gcc_python_string_from_format(s) ==
    IF s.k + 1 = s.failAt THEN [s EXCEPT !.k = s.k + 1, !.r = NULL]
    ELSE [s EXCEPT !.k = s.k + 1, !.strs = s.strs + 1, !.r = StrObj]

(***************************************************************************)
(* gcc_Declaration_repr.  A declaration is given by the tp_name of its     *)
(* proxy's type, the identifier that is its DECL_NAME ("" when DECL_NAME   *)
(* is NULL) and its DECL_UID.                                              *)
(***************************************************************************)
DeclTypeNames == {"gcc.VarDecl", "gcc.ParmDecl", "gcc.FunctionDecl"}

Identifiers == {"x", "main"}

NoName == ""

\* what the format "%s('%s')" makes of a type name and an identifier
Format_s_quoted_s(tp_name, name) == tp_name \o "('" \o name \o "')"

\* what the format "%s(%u)" makes of a type name and an unsigned number
Format_s_u(tp_name, uid) == tp_name \o "(" \o ToString(uid) \o ")"

\* gcc_Declaration_get_name(self, NULL): a new string with the characters of
\* the identifier, or NULL
gcc_Declaration_get_name(s, self) ==
    Bind(gcc_python_string_from_format(s), LAMBDA s1 :
        IF s1.r = NULL THEN s1 ELSE [s1 EXCEPT !.text = self.DECL_NAME])

gcc_Declaration_repr(s, self) ==
    IF self.DECL_NAME # NoName
    THEN Bind(gcc_Declaration_get_name(s, self), LAMBDA s1 :
         IF s1.r = NULL THEN [s1 EXCEPT !.text = ""]
         ELSE Bind(gcc_python_string_from_format(s1), LAMBDA s2 :
              Bind(Py_DECREF(s2, StrObj), LAMBDA s3 :
                 IF s2.r = NULL THEN [s3 EXCEPT !.r = NULL, !.text = ""]
                 ELSE [s3 EXCEPT !.r = StrObj,
                                 !.text = Format_s_quoted_s(self.tp_name, s1.text)])))
    ELSE Bind(gcc_python_string_from_format(s), LAMBDA s1 :
         IF s1.r = NULL THEN s1
         ELSE [s1 EXCEPT !.text = Format_s_u(self.tp_name, self.DECL_UID)])

RECURSIVE PyObject_Repr(_, _)
RECURSIVE gcc_TreeList_repr_leaking(_, _)
RECURSIVE gcc_TreeList_repr(_, _)
\* gcc_TreeList_repr as it would be if the error label released nothing
\* when a step had failed
gcc_TreeList_repr_leaking(s, self) ==
    Bind(gcc_python_make_wrapper_tree(s, TREE_PURPOSE(s.obj[self].t)),
         LAMBDA s1 :
    Bind(IF s1.r = NULL THEN s1
         ELSE gcc_python_make_wrapper_tree(s1, TREE_VALUE(s.obj[self].t)),
         LAMBDA s2 :
    Bind(IF s2.r = NULL THEN s2
         ELSE gcc_python_make_wrapper_tree(s2, TREE_CHAIN(s.obj[self].t)),
         LAMBDA s3 :
    Bind(IF s3.r = NULL THEN s3 ELSE PyObject_Repr(s3, s1.r), LAMBDA s4 :
    Bind(IF s4.r = NULL THEN s4 ELSE PyObject_Repr(s4, s2.r), LAMBDA s5 :
    Bind(IF s5.r = NULL THEN s5 ELSE PyObject_Repr(s5, s3.r), LAMBDA s6 :
    Bind(IF s6.r = NULL THEN s6 ELSE gcc_python_string_from_format(s6),
         LAMBDA s7 :
    IF s7.r = NULL THEN s7
    ELSE
    Bind(Py_DECREF(s7, s1.r), LAMBDA e1 :
    Bind(Py_DECREF(e1, s2.r), LAMBDA e2 :
    Bind(Py_DECREF(e2, s3.r), LAMBDA e3 :
    Bind(Py_DECREF(e3, s4.r), LAMBDA e4 :
    Bind(Py_DECREF(e4, s5.r), LAMBDA e5 :
    Bind(Py_DECREF(e5, s6.r), LAMBDA e6 :
        IF Running(e6) THEN Return(e6, s7.r) ELSE e6)))))))))))))

\* A step of gcc_TreeList_repr: skipped once an earlier step gave NULL
\* (goto error); its result is then NULL as well.
gcc_TreeList_repr(s, self) ==
    Bind(gcc_python_make_wrapper_tree(s, TREE_PURPOSE(s.obj[self].t)),
         LAMBDA s1 :
    Bind(IF s1.r = NULL THEN s1
         ELSE gcc_python_make_wrapper_tree(s1, TREE_VALUE(s.obj[self].t)),
         LAMBDA s2 :
    Bind(IF s2.r = NULL THEN s2
         ELSE gcc_python_make_wrapper_tree(s2, TREE_CHAIN(s.obj[self].t)),
         LAMBDA s3 :
    Bind(IF s3.r = NULL THEN s3 ELSE PyObject_Repr(s3, s1.r), LAMBDA s4 :
    Bind(IF s4.r = NULL THEN s4 ELSE PyObject_Repr(s4, s2.r), LAMBDA s5 :
    Bind(IF s5.r = NULL THEN s5 ELSE PyObject_Repr(s5, s3.r), LAMBDA s6 :
    Bind(IF s6.r = NULL THEN s6 ELSE gcc_python_string_from_format(s6),
         LAMBDA s7 :
    \* error:
    Bind(Py_DECREF(s7, s1.r), LAMBDA e1 :
    Bind(Py_DECREF(e1, IF s1.r = NULL THEN NULL ELSE s2.r), LAMBDA e2 :
    Bind(Py_DECREF(e2, IF s1.r = NULL \/ s2.r = NULL THEN NULL ELSE s3.r),
         LAMBDA e3 :
    Bind(Py_DECREF(e3, IF s3.r = NULL THEN NULL ELSE s4.r), LAMBDA e4 :
    Bind(Py_DECREF(e4, IF s4.r = NULL THEN NULL ELSE s5.r), LAMBDA e5 :
    Bind(Py_DECREF(e5, IF s5.r = NULL THEN NULL ELSE s6.r), LAMBDA e6 :
        IF Running(e6) THEN Return(e6, s7.r) ELSE e6)))))))))))))

\* gcc_IntegerConstant_repr and gcc_StringConstant_repr format the node and
\* request no proxy; None has the host's own repr.
PyObject_Repr(s, o) ==
    IF ~Running(s) THEN s
    ELSE IF o = None THEN gcc_python_string_from_format(s)
    ELSE IF s.obj[o].ob_type = "gcc.TreeList" THEN gcc_TreeList_repr(s, o)
    ELSE gcc_python_string_from_format(s)

\* PyObject_Print(op, stdout, 0) writes repr(op) and drops the string
PyObject_Print(s, o) ==
    Bind(PyObject_Repr(s, o), LAMBDA s1 :
        IF s1.r = NULL THEN s1 ELSE Return(Py_DECREF(s1, s1.r), s1.r))

(***************************************************************************)
(* The mark walk and the collector.                                        *)
(***************************************************************************)
\* ((PyGccWrapperTypeObject*)typeobj)->wrtp_mark; "" is NULL
wrtp_mark_of(s, typeobj) == s.types[typeobj].wrtp_mark

\* wrtp_mark(iter): the marking function of every tree type marks the
\* wrapped node and what the collector reaches from it
wrtp_mark(s, iter) ==
    [s EXCEPT !.marked = s.marked \cup Reach(s.obj[iter].t),
              !.walkLog = Append(s.walkLog, iter)]

RECURSIVE walk(_, _, _)
walk(s, iter, fuel) ==
    IF ~Running(s) \/ iter = Sentinel THEN s
    ELSE IF iter = NULL \/ iter = Uninit \/ fuel = 0
         THEN [s EXCEPT !.status = "corrupt"]
    ELSE Bind(IF s.debug_gcc_python_wrapper # 0
              THEN PyObject_Print(s, iter) ELSE s, LAMBDA s1 :
            IF ~Running(s1) THEN s1
            ELSE IF wrtp_mark_of(s1, s1.obj[iter].ob_type) = "" THEN Abort(s1)
            ELSE Bind(wrtp_mark(s1, iter), LAMBDA s2 :
                    walk(s2, s2.obj[iter].wr_next, fuel - 1)))

\* my_walker as it would be if the loop started one node too far
my_walker_from_second(s) ==
    walk(s, wr_next(s, s.sentinel.wr_next), MaxObj + 1)

my_walker(s) == walk(s, s.sentinel.wr_next, MaxObj + 1)

\* One collection cycle of the compiler's collector: clear the mark bits,
\* call the registered root walker, reclaim every node left unmarked.
ggc_collect(s) ==
    Bind(my_walker([s EXCEPT !.marked = {}, !.walkLog = <<>>,
                             !.gc = Append(s.gc, s.ggc_force_collect)]),
         LAMBDA s1 :
        IF Running(s1)
        THEN [s1 EXCEPT !.swept = s1.swept \cup (Handles \ s1.marked)]
        ELSE s1)

\* force_gcc_gc as it would be if it left the flag set
force_gcc_gc_no_restore(s) == ggc_collect([s EXCEPT !.ggc_force_collect = TRUE])

force_gcc_gc(s) ==
    Bind(ggc_collect([s EXCEPT !.ggc_force_collect = TRUE]), LAMBDA s1 :
        IF Running(s1)
        THEN [s1 EXCEPT !.ggc_force_collect = s.ggc_force_collect] ELSE s1)

gcc_python__force_garbage_collection(s) ==
    Bind(force_gcc_gc(s), LAMBDA s1 :
        IF Running(s1) THEN Return(s1, None) ELSE s1)

\* ggc_marked_p
ggc_marked_p(s, t) == t \in s.marked

(***************************************************************************)
(* gcc_python__gc_selftest.  A failed MY_ASSERT returns NULL at once.      *)
(***************************************************************************)
gcc_python__gc_selftest(s, tree_intcst, tree_str) ==
    Bind(gcc_python_make_wrapper_tree_unique(
             [s EXCEPT !.debug_gcc_python_wrapper = 1], tree_intcst),
         LAMBDA s1 :
    IF s1.r = NULL THEN s1
    ELSE Bind(gcc_python_make_wrapper_tree_unique(s1, tree_str), LAMBDA s2 :
    IF s2.r = NULL THEN s2
    ELSE Bind(force_gcc_gc(s2), LAMBDA s3 :
    IF ~Running(s3) THEN s3
    ELSE IF ~ggc_marked_p(s3, tree_intcst) THEN Return(s3, NULL)
    ELSE IF ~ggc_marked_p(s3, tree_str) THEN Return(s3, NULL)
    ELSE Bind(Py_DECREF(s3, s1.r), LAMBDA s4 :
         Bind(Py_DECREF(s4, s2.r), LAMBDA s5 :
            IF ~Running(s5) THEN s5
            ELSE Return([s5 EXCEPT !.debug_gcc_python_wrapper = 0], None))))))

(***************************************************************************)
(* Initial state: no proxy, the sentinel linked to itself, no cache entry. *)
(***************************************************************************)
Init ==
    /\ types = [ty \in TypeObjects |->
                  IF ty \in WrapperTypes
                  THEN [st |-> "static", tp_base |-> "",
                        wrtp_mark |-> "wrtp_mark_for_PyGccTree"]
                  ELSE IF ty = UnmarkedType
                  THEN [st |-> "static", tp_base |-> "", wrtp_mark |-> ""]
                  ELSE [st |-> "unalloc", tp_base |-> "", wrtp_mark |-> ""]]
    /\ ntypes = 0
    /\ host = [c \in Hosts |-> NoHost]
    /\ nhost = 0
    /\ obj = [o \in Objs |-> NoObj]
    /\ nobj = 0
    /\ sentinel = [wr_prev |-> Sentinel, wr_next |-> Sentinel]
    /\ tree_wrapper_cache = [h \in Handles |-> NULL]
    /\ debug_gcc_python_wrapper = 0
    /\ ggc_force_collect = FALSE
    /\ marked = {}
    /\ swept = {}
    /\ walkLog = <<>>
    /\ status = "running"
    /\ text = ""
    /\ ret = NULL

Live == {o \in Objs : obj[o].st = "live"}

\* handles the compiler can still hand out
Requestable == {NULL} \cup (Handles \ swept)

FailChoices == 0..MaxFailAt

\* The outcomes to consider when proxy o may be destroyed: they differ only
\* for a proxy whose links were never written.
UBChoices(o) == IF obj[o].wr_prev = Uninit THEN UBOutcomes ELSE {"benign"}

\* A walk allocates, and may destroy a proxy, only while it prints.
PrintFailChoices == IF debug_gcc_python_wrapper # 0 THEN FailChoices ELSE {0}

PrintUBChoices == IF debug_gcc_python_wrapper # 0 THEN UBOutcomes ELSE {"benign"}

(***************************************************************************)
(* Actions: the calls the host interpreter and the compiler make.          *)
(***************************************************************************)
\* an accessor asks for the proxy of node t and keeps the reference
MakeWrapperTree(t) ==
    /\ status = "running"
    /\ t # NULL /\ tree_wrapper_cache[t] \in Live
         => obj[tree_wrapper_cache[t]].ob_refcnt < MaxRef
    /\ \E failAt \in 0..1 :
       \E s \in {gcc_python_make_wrapper_tree(Cur(failAt, "benign"), t)} :
         Commit(s)

\* WrapperNew as it would be if the constructor returned to the host between
\* _PyGccWrapper_New and the store of the node
WrapperNewHalfBuilt(t) ==
    /\ status = "running"
    /\ t # NULL
    /\ \E failAt \in 0..1 :
       \E s1 \in {_PyGccWrapper_New(Cur(failAt, "benign"),
                       gcc_python_autogenerated_tree_type_for_tree(t))} :
         Commit(s1)

\* a constructor builds a proxy of type typeobj with _PyGccWrapper_New and
\* then stores the node it wraps
WrapperNew(t) ==
    /\ status = "running"
    /\ t # NULL
    /\ \E failAt \in 0..1 :
       \E s1 \in {_PyGccWrapper_New(Cur(failAt, "benign"),
                       gcc_python_autogenerated_tree_type_for_tree(t))} :
         \E s2 \in {IF Running(s1) /\ s1.r # NULL
                     THEN [s1 EXCEPT !.obj[s1.r].t = t] ELSE s1} :
           Commit(s2)

\* the host drops a reference; the last one destroys the proxy
DecRef(o) ==
    /\ status = "running"
    /\ o \in Live
    /\ \E ub \in UBChoices(o) :
       \E s \in {Py_DECREF(Cur(0, ub), o)} : Commit(Return(s, NULL))

\* gcc_python_wrapper_untrack called on a proxy the host still holds
CallUntrack(o) ==
    /\ status = "running"
    /\ o \in Live
    /\ \E ub \in UBChoices(o) :
       \E s \in {gcc_python_wrapper_untrack(Cur(0, ub), o)} : Commit(s)

\* gcc_python_wrapper_dealloc called on a proxy the host still holds
CallDealloc(o) ==
    /\ status = "running"
    /\ o \in Live
    /\ \E ub \in UBChoices(o) :
       \E s \in {gcc_python_wrapper_dealloc(Cur(0, ub), o)} : Commit(s)

\* gcc._force_garbage_collection()
ForceGarbageCollection ==
    /\ status = "running"
    /\ \E failAt \in PrintFailChoices, ub \in PrintUBChoices :
       \E s \in {gcc_python__force_garbage_collection(Cur(failAt, ub))} :
         Commit(s)

\* gcc._gc_selftest(): build_int_cst gives node 1, build_string node 2
GcSelftest ==
    /\ status = "running"
    /\ {1, 2} \subseteq Requestable
    /\ \A t \in {1, 2} : tree_wrapper_cache[t] \in Live
         => obj[tree_wrapper_cache[t]].ob_refcnt < MaxRef
    /\ \E failAt \in FailChoices, ub \in UBOutcomes :
       \E s \in {gcc_python__gc_selftest(Cur(failAt, ub), 1, 2)} :
         Commit(s)

\* class statement: a host-defined subtype of the wrapper type tp_base
MetaTpNew(tp_base) ==
    /\ status = "running"
    /\ types[tp_base].st # "unalloc"
    /\ \E failAt \in 0..1 :
       \E s \in {gcc_python_wrapper_meta_tp_new(Cur(failAt, "benign"), tp_base)} :
         Commit([s EXCEPT !.r = IF s.r = "" THEN NULL ELSE None])

\* an instance of the host-defined subtype typeobj is built with
\* _PyGccWrapper_New and the node it wraps is stored
SubtypeNew(typeobj, t) ==
    /\ status = "running"
    /\ types[typeobj].st = "heap"
    /\ t # NULL
    \* the node is one of the code the built-in ancestor stands for (a
    \* TREE_LIST for gcc.Unmarked, whose instances wrap no tree)
    /\ TREE_CODE(t) = IF StaticBase(types, typeobj) = UnmarkedType
                      THEN "gcc.TreeList" ELSE StaticBase(types, typeobj)
    /\ \E s1 \in {_PyGccWrapper_New(Cur(0, "benign"), typeobj)} :
         \E s2 \in {IF Running(s1) /\ s1.r # NULL
                     THEN [s1 EXCEPT !.obj[s1.r].t = t] ELSE s1} :
           Commit(s2)

Next ==
    \/ \E t \in Requestable : MakeWrapperTree(t)
    \/ \E t \in Requestable : WrapperNew(t)
    \/ \E o \in Objs : DecRef(o)
    \/ \E o \in Objs : CallUntrack(o)
    \/ \E o \in Objs : CallDealloc(o)
    \/ ForceGarbageCollection
    \/ GcSelftest

Spec == Init /\ [][Next]_vars

\* str(o)
TreeStr(o) ==
    /\ status = "running"
    /\ o \in Live
    /\ \E failAt \in FailChoices :
       \E s \in {gcc_Tree_str(Cur(failAt, "benign"), o)} : Commit(s)

\* hash(o)
TreeHash(o) ==
    /\ status = "running"
    /\ o \in Live
    /\ \E s \in {Cur(0, "benign")} : Commit(Return(s, gcc_Tree_hash(s, o)))

\* the host evaluates o1 == o2 or o1 != o2 with the tree type's
\* tp_richcompare; an operand is a proxy, None or a string
TreeRichcompare(o1, o2, op) ==
    /\ status = "running"
    /\ {o1, o2} \subseteq Live \cup {None, StrObj}
    /\ o1 \in Live \/ o2 \in Live
    /\ \E s \in {Cur(0, "benign")} :
         Commit(Return(s, gcc_Tree_richcompare(s, o1, o2, op)))

\* the behaviours of the proxies' own operations
NextTree ==
    \/ \E t \in Requestable : MakeWrapperTree(t)
    \/ \E t \in Requestable : WrapperNew(t)
    \/ \E o \in Objs : TreeStr(o)
    \/ \E o \in Objs : TreeHash(o)
    \/ \E o1, o2 \in Objs \cup {None, StrObj}, op \in EqualityOps :
          TreeRichcompare(o1, o2, op)

SpecTree == Init /\ [][NextTree]_vars

\* the chains an accessor may be given: nothing, or a TREE_LIST
TreeListChains == {NULL} \cup {t \in Handles \ swept : TREE_CODE(t) = "gcc.TreeList"}

\* an accessor returns gcc_tree_list_from_chain(t) to the host
TreeListFromChain(t) ==
    /\ status = "running"
    /\ \E failAt \in FailChoices, ub \in UBOutcomes :
       \E s \in {gcc_tree_list_from_chain(Cur(failAt, ub), t)} : Commit(s)

\* an accessor returns gcc_python_tree_make_list_from_tree_list_chain(t)
MakeListFromTreeListChain(t) ==
    /\ status = "running"
    /\ \E failAt \in FailChoices, ub \in UBOutcomes :
       \E s \in {gcc_python_tree_make_list_from_tree_list_chain(Cur(failAt, ub), t)} :
         Commit(s)

\* an accessor returns gcc_tree_list_of_pairs_from_tree_list_chain(t)
ListOfPairsFromTreeListChain(t) ==
    /\ status = "running"
    /\ \E failAt \in FailChoices, ub \in UBOutcomes :
       \E s \in {gcc_tree_list_of_pairs_from_tree_list_chain(Cur(failAt, ub), t)} :
         Commit(s)

\* the host drops the list an accessor gave it
ReleaseContainer(c) ==
    /\ status = "running"
    /\ host[c].st = "live" /\ host[c].kind = "list"
    /\ \E ub \in UBOutcomes :
       \E s \in {Py_DECREF(Cur(0, ub), c)} : Commit(Return(s, NULL))

\* the behaviours of the list-building accessors: the host holds the lists
\* it is given and no proxy of its own
NextLists ==
    \/ \E t \in Requestable : TreeListFromChain(t)
    \/ \E t \in TreeListChains : MakeListFromTreeListChain(t)
    \/ \E t \in TreeListChains : ListOfPairsFromTreeListChain(t)
    \/ \E c \in Hosts : ReleaseContainer(c)

SpecLists == Init /\ [][NextLists]_vars

\* the argument chains a function type may have: none, error_mark_node,
\* chains of one to MaxHandle nodes that end at NULL, and chains of one to
\* MaxHandle nodes that end at error_mark_node
ArgChainHeads ==
    {NULL, error_mark_node} \cup {2 + n : n \in 1..MaxHandle}
        \cup {ErrChain + n : n \in 1..MaxHandle}

\* the host reads the argument_types attribute of a function type proxy
\* whose TYPE_ARG_TYPES is head
FunctionTypeGetArgumentTypes(head) ==
    /\ status = "running"
    /\ \E failAt \in FailChoices, ub \in UBOutcomes :
       \E s \in {gcc_FunctionType_get_argument_types(Cur(failAt, ub), head)} :
         Commit(s)

\* the host drops the tuple it was given
ReleaseTuple(c) ==
    /\ status = "running"
    /\ host[c].st = "live" /\ host[c].kind = "tuple"
    /\ \E ub \in UBOutcomes :
       \E s \in {Py_DECREF(Cur(0, ub), c)} : Commit(Return(s, NULL))

\* the behaviours of the argument_types attribute
NextArgs ==
    \/ \E head \in ArgChainHeads : FunctionTypeGetArgumentTypes(head)
    \/ \E c \in Hosts : ReleaseTuple(c)

SpecArgs == Init /\ [][NextArgs]_vars

\* the attribute names and the attribute chains a type may have
AttrNames == {"nonnull", "format"}

AttrNodes == [name : AttrNames, value : TreeListChains]

AttrChains ==
    {<<>>} \cup {<<a>> : a \in AttrNodes}
           \cup {<<a, b>> : a \in AttrNodes, b \in AttrNodes}

\* the host reads the attributes of a type proxy whose TYPE_ATTRIBUTES is
\* the chain attrs
TypeGetAttributes(attrs) ==
    /\ status = "running"
    /\ \E failAt \in FailChoices, ub \in UBOutcomes :
       \E s \in {gcc_Type_get_attributes(Cur(failAt, ub), attrs)} : Commit(s)

\* the host drops the dictionary it was given
ReleaseDict(c) ==
    /\ status = "running"
    /\ host[c].st = "live" /\ host[c].kind = "dict"
    /\ \E ub \in UBOutcomes :
       \E s \in {Py_DECREF(Cur(0, ub), c)} : Commit(Return(s, NULL))

\* the behaviours of the attributes accessor
NextAttrs ==
    \/ \E attrs \in AttrChains : TypeGetAttributes(attrs)
    \/ \E c \in Hosts : ReleaseDict(c)

SpecAttrs == Init /\ [][NextAttrs]_vars

\* the declarations repr() may be asked for
Declarations ==
    [tp_name : DeclTypeNames, DECL_NAME : Identifiers \cup {NoName},
     DECL_UID : 0..MaxUid]

\* repr() of the proxy of declaration self
DeclarationRepr(self) ==
    /\ status = "running"
    /\ \E failAt \in FailChoices :
       \E s \in {gcc_Declaration_repr(Cur(failAt, "benign"), self)} : Commit(s)

\* the behaviours of repr() on declaration proxies
NextDecl == \E self \in Declarations : DeclarationRepr(self)

SpecDecl == Init /\ [][NextDecl]_vars

\* repr(o) on a tree proxy the host holds
TreeRepr(o) ==
    /\ status = "running"
    /\ o \in Live
    /\ obj[o].t \in Handles \ swept
    /\ \E failAt \in 0..MaxReprFailAt, ub \in UBOutcomes :
       \E s \in {PyObject_Repr(Cur(failAt, ub), o)} : Commit(s)

\* the behaviours of repr() on proxies the host obtained and may drop
NextRepr ==
    \/ \E t \in Requestable : MakeWrapperTree(t)
    \/ \E o \in Objs : DecRef(o)
    \/ \E o \in Objs : TreeRepr(o)

SpecRepr == Init /\ [][NextRepr]_vars

\* the compiler itself sets or clears its force-collect flag
SetForceCollect(b) ==
    /\ status = "running"
    /\ ggc_force_collect # b
    /\ Commit([Cur(0, "benign") EXCEPT !.ggc_force_collect = b])

\* the behaviours of forced collections, the compiler changing its flag in
\* between
NextGc ==
    \/ \E t \in Requestable : WrapperNew(t)
    \/ \E o \in Objs : DecRef(o)
    \/ ForceGarbageCollection
    \/ \E b \in BOOLEAN : SetForceCollect(b)

SpecGc == Init /\ [][NextGc]_vars

\* the behaviours with host-defined subtypes
NextMeta ==
    \/ \E tp_base \in TypeObjects : MetaTpNew(tp_base)
    \/ \E typeobj \in HeapTypes, t \in Requestable : SubtypeNew(typeobj, t)
    \/ ForceGarbageCollection

SpecMeta == Init /\ [][NextMeta]_vars


(***************************************************************************)
(* Vocabulary of the properties.                                           *)
(***************************************************************************)
Freed == {o \in Objs : obj[o].st = "freed"}

\* proxies built by real_make_tree_wrapper, i.e. through the cache
CacheBuilt == {o \in Objs : obj[o].ctor = "PyObject_New"}

\* proxies built by _PyGccWrapper_New
NewBuilt == {o \in Objs : obj[o].ctor = "_PyGccWrapper_New"}

InList == SeqToSet(TrackerList)

\* the members of S in the order of their construction
InOrder(S) == SelectSeq([i \in 1..MaxObj |-> i], LAMBDA x : x \in S)

Without(q, o) == SelectSeq(q, LAMBDA x : x # o)

IsPrefix(p, q) == Len(p) <= Len(q) /\ \A i \in 1..Len(p) : p[i] = q[i]

C2_RecreatedFreshAndTracked ==
    \A p \in Live \cap CacheBuilt : \A q \in Freed \cap CacheBuilt :
        obj[q].t = obj[p].t =>
            /\ p # q
            /\ tree_wrapper_cache[obj[p].t] = p
            /\ q \notin InList
            /\ p \in InList

(***************************************************************************)
(* C3  A proxy is in the tracker list if and only if it has been           *)
(* constructed and not yet destroyed, whichever way it was constructed.    *)
(***************************************************************************)
C3_InListIffLive == \A o \in Objs : o \in InList <=> o \in Live

(***************************************************************************)
(* C4  Mark completeness.  No node wrapped by a live proxy is ever         *)
(* reclaimed by a collection cycle: the walk marks it before the sweep.    *)
(***************************************************************************)
C4_LiveProxyNodeNotSwept == \A o \in Live : obj[o].t \notin swept

(***************************************************************************)
(* C5  After some proxies have been destroyed, a collection cycle marks    *)
(* exactly the nodes of the proxies still alive (with what the collector   *)
(* reaches from them), and no node of a destroyed proxy beyond those.      *)
(***************************************************************************)
C5_MarksExactlyTheLive ==
    [][(/\ ForceGarbageCollection
        /\ Freed # {}
        /\ \A o \in Live : obj[o].t \notin swept
        /\ status' = "running")
         => marked' = UNION {Reach(obj'[o].t) : o \in Live'}]_vars

(***************************************************************************)
(* C6  One mark walk calls the marking function once for each proxy that   *)
(* is in the tracker list when the walk starts, in list order, with that   *)
(* proxy as the argument, and never for the sentinel; a walk cut short by  *)
(* a fatal error has done so for a leading part of the list.               *)
(***************************************************************************)
C6_WalkMarksEachOnce ==
    [][ForceGarbageCollection =>
         /\ \A i \in 1..Len(walkLog') : walkLog'[i] \in Objs
         /\ IF status' = "running" THEN walkLog' = TrackerList
            ELSE IsPrefix(walkLog', TrackerList)]_vars

\* a completed walk over a list of at least two proxies
C6_Witness == Len(walkLog) >= 2 /\ status = "running" /\ walkLog = TrackerList

(***************************************************************************)
(* C7  track puts the proxy at the tail, untrack takes out only that       *)
(* proxy: the list order is the order in which the tracked proxies were    *)
(* tracked, a construction appends the new proxy and leaves the rest, a    *)
(* destruction removes the one proxy and leaves the order of the others.   *)
(***************************************************************************)
C7_TailInsertSpliceOut ==
    [][/\ TrackerList' = InOrder(Live' \cap NewBuilt')
       /\ \A t \in Requestable :
            (ret' # NULL /\ WrapperNew(t))
                => TrackerList' = Append(TrackerList, ret')
       /\ \A o \in InList :
            (obj[o].ob_refcnt = 1 /\ DecRef(o))
                => TrackerList' = Without(TrackerList, o)]_vars

\* two proxies remain in the list after an earlier-tracked one was untracked
C7_Witness ==
    /\ Len(TrackerList) >= 2
    /\ \E o \in Freed \cap NewBuilt : \A n \in InList : o < n

(***************************************************************************)
(* C8  gcc_python_wrapper_untrack or gcc_python_wrapper_dealloc called on  *)
(* a proxy whose reference count is not zero ends in the fatal assertion   *)
(* with no link of any proxy or of the sentinel modified.                  *)
(***************************************************************************)
C8_UntrackLiveIsFatal ==
    [][\A o \in Live :
         ((CallUntrack(o) \/ CallDealloc(o)) /\ obj[o].ob_refcnt # 0)
            => status' = "aborted" /\ obj' = obj /\ sentinel' = sentinel]_vars

\* the fatal check has stopped the untracking of a proxy that is in the list
C8_Witness ==
    /\ status = "aborted"
    /\ InList # {}
    /\ \A o \in Objs : obj[o].st = "live" => obj[o].ob_refcnt > 0

(***************************************************************************)
(* C9  The list never refers to released memory: every member of the list  *)
(* is a live proxy, and no link of a member or of the sentinel points to a *)
(* proxy that has been freed.                                              *)
(***************************************************************************)
C9_NoFreedInList ==
    /\ InList \subseteq Live
    /\ sentinel.wr_next \notin Freed /\ sentinel.wr_prev \notin Freed
    /\ \A n \in InList : obj[n].wr_next \notin Freed /\ obj[n].wr_prev \notin Freed

\* a tracked proxy has been destroyed while others stay in the list
C9_Witness == Freed \cap NewBuilt # {} /\ InList # {}

(***************************************************************************)
(* C10  A mark walk has no effect beyond marking, with verbose debugging   *)
(* on or off: it ends normally, no proxy is created or destroyed and the   *)
(* tracker list is what it was.                                            *)
(***************************************************************************)
C10_WalkOnlyMarks ==
    [][ForceGarbageCollection =>
         /\ status' = "running"
         /\ nobj' = nobj
         /\ Live' = Live
         /\ TrackerList' = TrackerList]_vars

(***************************************************************************)
(* C11  A host-defined subtype gets its marking function when it is        *)
(* created, from its declared parent, and keeps it: at any depth below a   *)
(* built-in type the slot is the built-in type's marking function, and a   *)
(* walk that completes has called it on every proxy of such a subtype,     *)
(* whose node is then marked.                                              *)
(***************************************************************************)
C11_SubtypeInheritsMark ==
    /\ \A ty \in HeapTypes : types[ty].st = "heap" =>
          /\ types[ty].wrtp_mark = types[types[ty].tp_base].wrtp_mark
          /\ types[ty].wrtp_mark = types[StaticBase(types, ty)].wrtp_mark
    /\ status = "running" =>
          \A i \in 1..Len(walkLog) :
              /\ wrtp_mark_of(Cur(0, "benign"), obj[walkLog[i]].ob_type)
                   = types[StaticBase(types, obj[walkLog[i]].ob_type)].wrtp_mark
              /\ obj[walkLog[i]].t \in marked

\* a completed walk has marked the node of a proxy whose type is a subtype
\* of a subtype of a built-in tree type
C11_Witness ==
    /\ status = "running"
    /\ \E i \in 1..Len(walkLog) :
          /\ obj[walkLog[i]].ob_type \in HeapTypes
          /\ types[obj[walkLog[i]].ob_type].tp_base \in HeapTypes
          /\ StaticBase(types, obj[walkLog[i]].ob_type) \in WrapperTypes
          /\ obj[walkLog[i]].t \in marked

(***************************************************************************)
(* C12  No host-defined subtype exists whose marking function is absent:   *)
(* creating a subtype of a type without a marking function fails fatally   *)
(* at creation.                                                            *)
(***************************************************************************)
C12_NoSubtypeWithoutMark ==
    \A ty \in HeapTypes : types[ty].st = "heap" => types[ty].wrtp_mark # ""

C14_NullHandleGivesNone ==
    status = "running" =>
        \A failAt \in 0..1 :
        \A s \in {gcc_python_make_wrapper_tree(Cur(failAt, "benign"), NULL),
                  real_make_tree_wrapper(Cur(failAt, "benign"), NULL)} :
            /\ s.r = None
            /\ s.status = "running"
            /\ s.k = 0
            /\ s.obj = obj /\ s.nobj = nobj
            /\ s.sentinel = sentinel
            /\ s.tree_wrapper_cache = tree_wrapper_cache

\* the null handle has been requested while a proxy was alive: None came
\* back from a call that walked nothing
C14_Witness ==
    /\ status = "running"
    /\ ret = None /\ walkLog = <<>> /\ swept # Handles
    /\ Live # {}

(***************************************************************************)
(* C15  A proxy construction whose allocation fails returns NULL and       *)
(* leaves the state as it was: no proxy, nothing added to the tracker      *)
(* list, no cache entry for the handle.  This holds for _PyGccWrapper_New, *)
(* for real_make_tree_wrapper and for a get-or-create that has to build.   *)
(***************************************************************************)
C15_AllocFailureLeavesState ==
    status = "running" =>
        \A failAt \in 0..1 :
        \A s \in {_PyGccWrapper_New(Cur(failAt, "benign"), ty) : ty \in WrapperTypes}
                 \cup {real_make_tree_wrapper(Cur(failAt, "benign"), t) :
                          t \in Handles}
                 \cup {gcc_python_make_wrapper_tree(Cur(failAt, "benign"), t) :
                          t \in {h \in Handles : tree_wrapper_cache[h] = NULL}} :
            /\ failAt = 1 => s.r = NULL
            /\ s.r = NULL =>
                  /\ s.status = "running"
                  /\ s.obj = obj /\ s.nobj = nobj
                  /\ s.sentinel = sentinel
                  /\ s.tree_wrapper_cache = tree_wrapper_cache

\* the self-test has returned NULL because its first proxy could not be
\* allocated: there is still no proxy at all
C15_Witness ==
    /\ status = "running"
    /\ ret = NULL /\ debug_gcc_python_wrapper = 1 /\ nobj = 0
    /\ TrackerList = <<>>
    /\ \A h \in Handles : tree_wrapper_cache[h] = NULL

C17_NeverEqualToNonProxy ==
    \A s \in {Cur(0, "benign")} :
    \A p \in Live : \A x \in {None, StrObj} : \A op \in CompareOps :
        /\ gcc_Tree_richcompare(s, p, x, op) = Py_NotImplemented
        /\ gcc_Tree_richcompare(s, x, p, op) = Py_NotImplemented

\* an == or != with a non-proxy operand has been answered
C17_Witness == ret = Py_NotImplemented /\ Live # {}

(***************************************************************************)
(* C20  gcc_Tree_str never swallows a failure: when the pretty-printer     *)
(* cannot be created it returns NULL and nothing has changed; when the     *)
(* conversion to a string fails it returns NULL; otherwise it returns the  *)
(* string; and whenever the pretty-printer was created it has been         *)
(* released exactly once when the call returns.                            *)
(***************************************************************************)
C20_StrErrorsPropagate ==
    status = "running" =>
        \A o \in Live : \A failAt \in FailChoices :
        \A s \in {gcc_Tree_str(Cur(failAt, "benign"), o)} :
            /\ s.status = "running"
            /\ s.obj = obj
            /\ IF failAt = 1 \/ nhost >= MaxHost
               THEN s.r = NULL /\ s.host = host /\ s.nhost = nhost
               ELSE /\ s.r = IF failAt = 2 THEN NULL ELSE StrObj
                    /\ s.nhost = nhost + 1
                    /\ s.host[MaxObj + nhost + 1] =
                         [st |-> "freed", kind |-> "pp", ob_refcnt |-> 0,
                          items |-> <<>>, keys |-> <<>>]
                    /\ \A c \in Hosts \ {MaxObj + nhost + 1} : s.host[c] = host[c]

\* a call has returned NULL after a pretty-printer was created and released
C20_Witness ==
    /\ status = "running"
    /\ ret = NULL
    /\ \E c \in Hosts : host[c].kind = "pp" /\ host[c].st = "freed"

\* the references that live lists and tuples hold to x
ContainerRefs(x) ==
    Cardinality({ci \in Hosts \X (1..(2 * MaxHandle)) :
                    /\ host[ci[1]].st = "live"
                    /\ ci[2] <= Len(host[ci[1]].items)
                    /\ host[ci[1]].items[ci[2]] = x})

(***************************************************************************)
(* C18  The list-building accessors add no reference of their own: while   *)
(* the host holds nothing but the lists it was given, the reference count  *)
(* of every live proxy, and of every tuple, is the number of references    *)
(* that live containers hold to it, so a proxy is gone once the containers *)
(* holding it are released.                                                *)
(***************************************************************************)
C18_OnlyContainerReferences ==
    status = "running" =>
        /\ \A o \in Live : obj[o].ob_refcnt = ContainerRefs(o)
        /\ \A c \in Hosts : host[c].st = "live" /\ host[c].kind = "tuple"
                               => host[c].ob_refcnt = ContainerRefs(c)

(***************************************************************************)
(* C19  gcc_python__gc_selftest releases the proxies it created on every   *)
(* return path: when it returns, whether with None or with NULL, no proxy  *)
(* is alive that was not alive before the call, and every proxy alive      *)
(* before it has the reference count it had.                               *)
(***************************************************************************)
C19_SelftestReleasesItsProxies ==
    [][GcSelftest /\ status' = "running"
          => \A o \in Objs : obj'[o].st = "live"
                => /\ obj[o].st = "live"
                   /\ obj'[o].ob_refcnt = obj[o].ob_refcnt]_vars

\* the nodes of the list: the sentinel and the proxies met from it
ListNodes == {Sentinel} \cup InList

(***************************************************************************)
(* C22  The tracker is always a well-formed circular doubly-linked list    *)
(* anchored at the sentinel: no link of a node of the list is null or      *)
(* unwritten, n.next.prev = n and n.prev.next = n for every node n of the  *)
(* list, the sentinel included, following next from the sentinel comes     *)
(* back to the sentinel, and the list is empty exactly when the sentinel   *)
(* links to itself.                                                        *)
(***************************************************************************)
C22_WellFormedCircularList ==
    /\ \A n \in ListNodes :
          /\ wr_next(Cur(0, "benign"), n) \in ListNodes
          /\ wr_prev(Cur(0, "benign"), n) \in ListNodes
          /\ wr_prev(Cur(0, "benign"), wr_next(Cur(0, "benign"), n)) = n
          /\ wr_next(Cur(0, "benign"), wr_prev(Cur(0, "benign"), n)) = n
    /\ wr_next(Cur(0, "benign"),
               IF TrackerList = <<>> THEN Sentinel
               ELSE TrackerList[Len(TrackerList)]) = Sentinel
    /\ Len(TrackerList) <= MaxObj
    /\ InList = {} <=> sentinel.wr_next = Sentinel /\ sentinel.wr_prev = Sentinel
    /\ Live \cap NewBuilt = {} <=> sentinel.wr_next = Sentinel

\* a proxy has been untracked from the middle of the list and two remain
C22_Witness ==
    /\ Len(TrackerList) = 2
    /\ \E o \in Freed \cap NewBuilt :
          TrackerList[1] < o /\ o < TrackerList[2]

(***************************************************************************)
(* C24  gcc_python_wrapper_untrack leaves the removed proxy with both      *)
(* links null, and a second untrack of the same proxy ends in the fatal    *)
(* assertion on its links with no link of any proxy or of the sentinel     *)
(* written: the list of the remaining proxies is what the first untrack    *)
(* left.  This holds for every proxy in the list (untracked here twice,    *)
(* its last reference gone) and for every proxy already destroyed.         *)
(***************************************************************************)
C24_RepeatedUntrackIsStopped ==
    status = "running" =>
      /\ \A o \in InList :
           \A s1 \in {gcc_python_wrapper_untrack(
                          [Cur(0, "benign") EXCEPT !.obj[o].ob_refcnt = 0], o)} :
           \A s2 \in {gcc_python_wrapper_untrack(s1, o)} :
              /\ Running(s1)
              /\ s1.obj[o].wr_prev = NULL /\ s1.obj[o].wr_next = NULL
              /\ ListFrom(s1.obj, s1.sentinel.wr_next, MaxObj + 1)
                   = Without(TrackerList, o)
              /\ s2.status = "aborted"
              /\ s2.obj = s1.obj /\ s2.sentinel = s1.sentinel
      /\ \A o \in Freed \cap NewBuilt :
           \A s2 \in {gcc_python_wrapper_untrack(Cur(0, "benign"), o)} :
              /\ obj[o].wr_prev = NULL /\ obj[o].wr_next = NULL
              /\ s2.status = "aborted"
              /\ s2.obj = obj /\ s2.sentinel = sentinel

\* a tracked proxy has been untracked and destroyed, its links are null,
\* and other proxies are still in the list
C24_Witness ==
    /\ status = "running"
    /\ InList # {}
    /\ \E o \in Freed \cap NewBuilt : obj[o].wr_prev = NULL /\ obj[o].wr_next = NULL

C25_DebugOffAfterSelftest ==
    status = "running" => debug_gcc_python_wrapper = 0

(***************************************************************************)
(* C26  force_gcc_gc and gcc._force_garbage_collection run exactly one     *)
(* collection cycle, with the force-collect flag set during it, and leave  *)
(* the flag at the value it had before the call, set or clear.             *)
(***************************************************************************)
C26_ForceFlagRestored ==
    status = "running" =>
      \A failAt \in PrintFailChoices, ub \in PrintUBChoices :
        /\ \A s1 \in {force_gcc_gc(Cur(failAt, ub))} :
              /\ s1.gc = <<TRUE>>
              /\ Running(s1) => s1.ggc_force_collect = ggc_force_collect
        /\ \A s1 \in {gcc_python__force_garbage_collection(Cur(failAt, ub))} :
              /\ s1.gc = <<TRUE>>
              /\ Running(s1) => s1.ggc_force_collect = ggc_force_collect
                                 /\ s1.r = None

\* a forced collection has completed over a non-empty list with the flag
\* set before the call and set after it
C26_Witness ==
    /\ status = "running" /\ ret = None /\ walkLog # <<>>
    /\ ggc_force_collect = TRUE

\* the i-th node (from 1) of the chain that starts at head
RECURSIVE ChainNode(_, _)
ChainNode(head, i) == IF i = 1 THEN head ELSE ChainNode(TREE_CHAIN(head), i - 1)

(***************************************************************************)
(* C27  A tuple returned by gcc_FunctionType_get_argument_types for an     *)
(* argument chain of n nodes has exactly n-1 entries, n >= 1, every slot   *)
(* is filled, and entry i is the proxy of the value of the i-th node of    *)
(* the chain (None when that node has no value); the chain's last node is  *)
(* left out.  A chain that ends at NULL gives such a tuple whenever no     *)
(* allocation fails.                                                       *)
(***************************************************************************)
C27_ArgumentTypesTuple ==
    status = "running" =>
      \A head \in ArgChainHeads, failAt \in FailChoices :
        \A s1 \in {gcc_FunctionType_get_argument_types(Cur(failAt, "benign"), head)} :
          /\ (Running(s1) /\ s1.r # NULL) =>
               /\ ChainSize(head) >= 1
               /\ s1.host[s1.r].kind = "tuple"
               /\ Len(s1.host[s1.r].items) = ChainSize(head) - 1
               /\ \A i \in 1..Len(s1.host[s1.r].items) :
                    \E item \in {s1.host[s1.r].items[i]} :
                      /\ item # NULL
                      /\ IF TREE_VALUE(ChainNode(head, i)) = NULL THEN item = None
                         ELSE /\ item \in Objs
                              /\ s1.obj[item].st = "live"
                              /\ s1.obj[item].t = TREE_VALUE(ChainNode(head, i))
          /\ (/\ failAt = 0 /\ head \in 3..(2 + MaxHandle)
              /\ nhost < MaxHost
              /\ nobj + ChainSize(head) - 1 <= MaxObj)
               => Running(s1) /\ s1.r # NULL

\* a tuple of two argument types has been returned for a chain of three
\* nodes: the proxies of the values of the first and the second, in order
C27_Witness ==
    /\ status = "running"
    /\ ret \in Hosts
    /\ host[ret].kind = "tuple"
    /\ Len(host[ret].items) = 2
    /\ host[ret].items[1] \in Live /\ host[ret].items[2] \in Live
    /\ obj[host[ret].items[1]].t = TREE_VALUE(5)
    /\ obj[host[ret].items[2]].t = TREE_VALUE(4)

(***************************************************************************)
(* C28  In gcc_FunctionType_get_argument_types the assertions size > 0 and *)
(* i < size hold for every argument chain the function can be given, an    *)
(* empty chain and a chain that ends at error_mark_node included: the call *)
(* never ends in a fatal assertion.                                        *)
(***************************************************************************)
C28_ArgumentAssertionsHold ==
    status = "running" =>
      \A head \in ArgChainHeads :
        gcc_FunctionType_get_argument_types(Cur(0, "benign"), head).status
            = "running"

(***************************************************************************)
(* C30  gcc_TreeList_repr releases every temporary it obtained exactly     *)
(* once on every path: when it returns, no reference to a repr string is   *)
(* outstanding but that of the string it returns, every proxy alive before *)
(* the call has the reference count it had, and no proxy the call created  *)
(* is still alive.  When the creation of a child proxy or the repr of a    *)
(* child fails it returns NULL.                                            *)
(***************************************************************************)
C30_TreeListReprReleasesTemporaries ==
    status = "running" =>
      \A o \in Live :
        (obj[o].ob_type = "gcc.TreeList" /\ obj[o].t \in Handles \ swept) =>
          \A failAt \in 0..MaxReprFailAt, ub \in UBOutcomes :
            \A s1 \in {gcc_TreeList_repr(Cur(failAt, ub), o)} :
              Running(s1) =>
                /\ s1.r \in {NULL, StrObj}
                /\ s1.strs = IF s1.r = NULL THEN 0 ELSE 1
                /\ s1.r # NULL => failAt = 0 \/ failAt > s1.k
                /\ (failAt >= 1 /\ failAt <= s1.k) => s1.r = NULL
                /\ \A p \in Objs :
                     IF p \in Live
                     THEN /\ s1.obj[p].st = "live"
                          /\ s1.obj[p].ob_refcnt = obj[p].ob_refcnt
                     ELSE s1.obj[p].st # "live"
                /\ s1.host = host

\* repr() of a TREE_LIST proxy has returned its string, and the proxies of
\* the purpose and of the value it created on the way are destroyed
C30_Witness ==
    /\ status = "running"
    /\ ret = StrObj
    /\ \E o \in Live : obj[o].ob_type = "gcc.TreeList"
    /\ \E p, q \in Freed :
          obj[p].t = TREE_PURPOSE(3) /\ obj[q].t = TREE_VALUE(3)

(***************************************************************************)
(* C21  The constructor-style rendering of a declaration proxy is          *)
(* Name('identifier') when the declaration has a name and Name(#uid) when  *)
(* it is anonymous, Name being the proxy's type name and uid the           *)
(* declaration's unique id.                                                *)
(***************************************************************************)
C21_DeclarationRendering ==
    [][\A self \in Declarations :
         (DeclarationRepr(self) /\ ret' # NULL) =>
            text' = IF self.DECL_NAME # NoName
                    THEN self.tp_name \o "('" \o self.DECL_NAME \o "')"
                    ELSE self.tp_name \o "(#" \o ToString(self.DECL_UID) \o ")"]_vars

\* the position of the last node of attrs whose name is name
LastOccurrence(attrs, name) ==
    CHOOSE j \in 1..Len(attrs) :
        /\ attrs[j].name = name
        /\ \A i \in (j + 1)..Len(attrs) : attrs[i].name # name

(***************************************************************************)
(* C29  A dictionary returned by gcc_Type_get_attributes has exactly one   *)
(* key per distinct attribute name of the chain, and the value under a     *)
(* name is the list built for the last node of the chain with that name:   *)
(* a list of the proxies of the values of that node's value chain.  The    *)
(* lists built for earlier nodes with the same name are not in it.         *)
(***************************************************************************)
C29_AttributesLastWins ==
    status = "running" =>
      \A attrs \in AttrChains, failAt \in FailChoices :
        \A s1 \in {gcc_Type_get_attributes(Cur(failAt, "benign"), attrs)} :
          (Running(s1) /\ s1.r # NULL) =>
            \E d \in {s1.host[s1.r]} :
              /\ d.kind = "dict" /\ d.st = "live"
              /\ Len(d.keys) = Len(d.items)
              /\ {d.keys[j] : j \in 1..Len(d.keys)}
                   = {attrs[j].name : j \in 1..Len(attrs)}
              /\ \A i, j \in 1..Len(d.keys) : d.keys[i] = d.keys[j] => i = j
              /\ \A j \in 1..Len(d.keys) :
                   \* the list allocated for the node's turn in the loop
                   /\ d.items[j] = s1.r + LastOccurrence(attrs, d.keys[j])
                   /\ \E l \in {s1.host[d.items[j]]},
                         head \in {attrs[LastOccurrence(attrs, d.keys[j])].value} :
                        /\ l.kind = "list" /\ l.st = "live"
                        /\ Len(l.items) = ChainSize(head)
                        /\ \A i \in 1..Len(l.items) :
                             /\ l.items[i] \in Objs
                             /\ s1.obj[l.items[i]].t
                                  = TREE_VALUE(ChainNode(head, i))

\* a dictionary with one key has been returned for a chain of two nodes of
\* the same name: its value is the list built second, which is not empty,
\* and the list built first is not in it
C29_Witness ==
    /\ status = "running"
    /\ ret \in Hosts
    /\ host[ret].kind = "dict"
    /\ Len(host[ret].keys) = 1
    /\ host[ret].items = <<ret + 2>>
    /\ host[ret + 1].kind = "list" /\ host[ret + 2].kind = "list"
    /\ host[ret + 2].items # <<>>
    /\ host[ret + 2].items # host[ret + 1].items

=============================================================================
